---------------------------- MODULE Spec2Model ----------------------------
(***************************************************************************)
(* Model of api/app.py: the person-count filter (count_people_in_image)    *)
(* and the two request handlers (/predict, /predict-batch).                *)
(*                                                                         *)
(* Conventions                                                             *)
(*  - A Python str is a sequence of one-character strings, so that         *)
(*    startswith / lower / "in" are computed, not assumed.  Message texts  *)
(*    that the code only passes along are sequences of text fragments.     *)
(*  - An Optional value is None == <<>> or Some(x) == <<x>>.               *)
(*  - Probabilities and scores are integers in percent (0.7 is 70).        *)
(*  - The detector and the classifier are opaque collaborators: what they  *)
(*    return (or that they raise) for an image is an attribute of the      *)
(*    image, as with a deterministic fake.                                 *)
(***************************************************************************)
EXTENDS Integers, Sequences, FiniteSets, TLC

VARIABLES
    id2label,   \* model.config.id2label, fixed once the models are loaded
    pc,         \* position of the request handler
    endpoint,   \* which handler serves the request
    files,      \* the uploaded files of the request
    idx,        \* predict_batch: index of the next file of the loop
    results,    \* predict_batch: the results list
    response,   \* the HTTP response, once the handler has answered
    calls,      \* collaborator calls made for the request, in order
    cpc,        \* count_people_in_image called on its own: position
    cimage,     \* ... its argument
    cresult     \* ... its return value

vars == <<id2label, pc, endpoint, files, idx, results, response, calls,
          cpc, cimage, cresult>>

handlerVars == <<id2label, pc, endpoint, files, idx, results, response, calls>>
countVars == <<cpc, cimage, cresult>>

----------------------------------------------------------------------------
(* Bounds of the model *)

\* longest detector output drawn for count_people_in_image
MaxDets == 3
\* largest number of files in a /predict-batch request
MaxFiles == 11
\* number of people in the most crowded image
CrowdSize == 12

----------------------------------------------------------------------------
(* Python values *)

None == <<>>
Some(x) == <<x>>

Max(a, b) == IF a >= b THEN a ELSE b

\* str.startswith
StartsWith(s, prefix) ==
    /\ Len(s) >= Len(prefix)
    /\ SubSeq(s, 1, Len(prefix)) = prefix

\* str.lower, on the letters that occur in the labels of the model
LowerChar(c) ==
    CASE c = "P" -> "p"
      [] c = "E" -> "e"
      [] c = "R" -> "r"
      [] c = "S" -> "s"
      [] c = "O" -> "o"
      [] c = "N" -> "n"
      [] OTHER -> c

Lower(s) == [k \in 1..Len(s) |-> LowerChar(s[k])]

\* the "in" operator on two str: sub occurs in s
Contains(s, sub) ==
    \E k \in 0..(Len(s) - Len(sub)) : SubSeq(s, k + 1, k + Len(sub)) = sub

DigitChars == <<"0", "1", "2", "3", "4", "5", "6", "7", "8", "9">>

\* str(n) of a non-negative int, as the f-strings format person_count
RECURSIVE IntToStr(_)
IntToStr(n) ==
    IF n < 10 THEN <<DigitChars[n + 1]>>
    ELSE IntToStr(n \div 10) \o <<DigitChars[(n % 10) + 1]>>

----------------------------------------------------------------------------
(* count_people_in_image *)

PersonWord == <<"p", "e", "r", "s", "o", "n">>

\* score > 0.7, the score in percent
ScoreThreshold == 70
\* relative_area > 0.05 = 1/20
AreaDenominator == 20
\* relative_height > 0.2 = 1/5
HeightDenominator == 5

NoBox == [missing |-> TRUE]

\* 'person' in detection['label'].lower()
IsPersonLabel(detection) == Contains(Lower(detection.label), PersonWord)

\* The filter criteria with >= for > (an off-by-boundary slip).
IsValidPersonInclusive(detection, img_width, img_height) ==
    LET box == detection.box
        det_width == box.xmax - box.xmin
        det_height == box.ymax - box.ymin
    IN  /\ detection.score >= ScoreThreshold
        /\ AreaDenominator * (det_width * det_height) >= img_width * img_height
        /\ HeightDenominator * det_height >= img_height

\* The filter criteria.  The code divides ints (true division) and compares
\* the float with 0.05 and 0.2; for pixel-sized operands the correctly
\* rounded quotient compares with the literal as the exact rational does,
\* which is the comparison written here (image sides are positive).
IsValidPerson(detection, img_width, img_height) ==
    LET box == detection.box
        det_width == box.xmax - box.xmin
        det_height == box.ymax - box.ymin
    IN  /\ detection.score > ScoreThreshold
        /\ AreaDenominator * (det_width * det_height) > img_width * img_height
        /\ HeightDenominator * det_height > img_height

\* The for loop of the filter from detection k on: the count it ends with,
\* or that a step raised (a missing 'box' key, a division by zero).
RECURSIVE FilterLoop(_, _, _, _, _)
FilterLoop(detections, img_width, img_height, k, valid_people) ==
    IF k > Len(detections)
    THEN [raised |-> FALSE, valid_people |-> valid_people]
    ELSE LET detection == detections[k]
         IN  IF IsPersonLabel(detection)
             THEN IF detection.box = NoBox \/ img_width * img_height = 0
                       \/ img_height = 0
                  THEN [raised |-> TRUE, valid_people |-> valid_people]
                  ELSE FilterLoop(detections, img_width, img_height, k + 1,
                           IF IsValidPerson(detection, img_width, img_height)
                           THEN valid_people + 1
                           ELSE valid_people)
             ELSE FilterLoop(detections, img_width, img_height, k + 1,
                             valid_people)

\* The except branch returning the count so far instead of 1.
count_people_in_image_partial(image) ==
    IF image.detector.raises
    THEN 0
    ELSE FilterLoop(image.detector.detections, image.size[1], image.size[2],
                    1, 0).valid_people

count_people_in_image(image) ==
    IF image.detector.raises
    THEN 1
    ELSE LET r == FilterLoop(image.detector.detections,
                             image.size[1], image.size[2], 1, 0)
         IN  IF r.raised THEN 1 ELSE r.valid_people

----------------------------------------------------------------------------
(* Detector outputs drawn for count_people_in_image *)

LabelPerson == <<"p", "e", "r", "s", "o", "n">>
LabelPersonCaps == <<"P", "e", "r", "s", "o", "n">>
LabelDog == <<"d", "o", "g">>

Labels == {LabelPerson, LabelPersonCaps, LabelDog}
Scores == {ScoreThreshold, ScoreThreshold + 1}

Box(xmin, ymin, xmax, ymax) ==
    [xmin |-> xmin, ymin |-> ymin, xmax |-> xmax, ymax |-> ymax]

\* On a 10x10 image: large (45%, 0.9 high), area exactly 5%, height exactly 0.2.
BoxLarge == Box(2, 0, 7, 9)
BoxAreaEdge == Box(0, 0, 1, 5)
BoxHeightEdge == Box(0, 0, 5, 2)

Boxes == {BoxLarge, BoxAreaEdge, BoxHeightEdge, NoBox}

Detections == [label : Labels, score : Scores, box : Boxes]

Sizes == {<<10, 10>>, <<20, 10>>}

DetectorOutcomes ==
    {[raises |-> TRUE, detections |-> <<>>]}
    \cup {[raises |-> FALSE, detections |-> d] :
            d \in UNION {[1..n -> Detections] : n \in 0..MaxDets}}

CountImages == [size : Sizes, detector : DetectorOutcomes]


----------------------------------------------------------------------------
(* HTTP responses *)

\* a returned dict: 200 with a JSON body
Ok(body) == [status |-> 200, detail |-> None, body |-> Some(body)]

\* raise HTTPException(status_code, detail)
HTTPException(status_code, detail) ==
    [status |-> status_code, detail |-> Some(detail), body |-> None]

\* An exception nobody catches: the framework answers 500 with its own
\* fixed text, no detail and none of the exception's message.
UnhandledError == [status |-> 500, detail |-> None, body |-> None]

\* str(e) of the AttributeError raised by None.startswith
AttributeErrorText == <<"'NoneType' object has no attribute 'startswith'">>

ImagePrefix == <<"i", "m", "a", "g", "e", "/">>

\* not file.content_type.startswith('image/'), for a declared content type
NotImageType(file) == ~StartsWith(file.content_type[1], ImagePrefix)

\* Call records: which collaborator was called for which file of the request.
Call(op, k) == [op |-> op, file |-> k]

----------------------------------------------------------------------------
(* The classifier *)

ClassIds == {0, 1}

\* predictions.argmax().item(): the first index holding the maximum
ArgMax(probs) == IF probs[0] >= probs[1] THEN 0 ELSE 1

\* predictions.max().item()
MaxProb(probs) == Max(probs[0], probs[1])

----------------------------------------------------------------------------
(* /predict *)

\* The count branches treating exactly two people like one (an off-by-one).
predict_count_error_lenient(person_count) ==
    IF person_count = 0
    THEN Some([error |-> Some(<<"No person detected in image">>),
               person_count |-> person_count,
               prediction |-> None,
               confidence |-> 0])
    ELSE IF person_count > 2
    THEN Some([error |-> Some(<<"Multiple people detected (">>
                              \o IntToStr(person_count)
                              \o <<" people). Please use single-person images.">>),
               person_count |-> person_count,
               prediction |-> None,
               confidence |-> 0])
    ELSE None

\* The branches on person_count: the dict returned for 0 and for more than
\* 1 person, None when the handler goes on to classify.
predict_count_error(person_count) ==
    IF person_count = 0
    THEN Some([error |-> Some(<<"No person detected in image">>),
               person_count |-> person_count,
               prediction |-> None,
               confidence |-> 0])
    ELSE IF person_count > 1
    THEN Some([error |-> Some(<<"Multiple people detected (">>
                              \o IntToStr(person_count)
                              \o <<" people). Please use single-person images.">>),
               person_count |-> person_count,
               prediction |-> None,
               confidence |-> 0])
    ELSE None

\* The dict returned after classification.
predict_success(probs, person_count) ==
    [prediction |-> Some(id2label[ArgMax(probs)]),
     confidence |-> MaxProb(probs),
     person_count |-> person_count,
     probabilities |-> [male |-> probs[0], female |-> probs[1]],
     error |-> None]

\* except Exception as e: raise HTTPException(500, f"Prediction failed: {e}")
PredictionFailed(text) == HTTPException(500, <<"Prediction failed: ">> \o text)

\* The handler of /predict: its response and the collaborator calls it made.
predict_gender(file) ==
    IF file.content_type = None
    THEN [response |-> UnhandledError, calls |-> <<>>]
    ELSE IF NotImageType(file)
    THEN [response |-> HTTPException(400, <<"File must be an image">>),
          calls |-> <<>>]
    ELSE IF file.read_error # None
    THEN [response |-> PredictionFailed(file.read_error[1]),
          calls |-> <<Call("read", 1)>>]
    ELSE IF file.decode_error # None
    THEN [response |-> PredictionFailed(file.decode_error[1]),
          calls |-> <<Call("read", 1), Call("decode", 1)>>]
    ELSE LET image == file.image
             person_count == count_people_in_image(image)
             soft == predict_count_error(person_count)
             counted == <<Call("read", 1), Call("decode", 1), Call("detect", 1)>>
         IN  IF soft # None
             THEN [response |-> Ok(soft[1]), calls |-> counted]
             ELSE IF image.classifier.raises
             THEN [response |-> PredictionFailed(image.classifier.error),
                   calls |-> Append(counted, Call("classify", 1))]
             ELSE [response |-> Ok(predict_success(image.classifier.probs,
                                                   person_count)),
                   calls |-> Append(counted, Call("classify", 1))]

----------------------------------------------------------------------------
(* /predict-batch *)

\* "Maximum 10 images per batch"
MaxBatchSize == 10

\* The size check with >= for >.
BatchTooLargeInclusive(uploads) == Len(uploads) >= MaxBatchSize

\* len(files) > 10
BatchTooLarge(uploads) == Len(uploads) > MaxBatchSize

\* The count check letting several people through to the classifier.
batch_count_mismatch_lenient(person_count) == person_count = 0

\* person_count != 1
batch_count_mismatch(person_count) == person_count # 1

\* The entry appended when the content type is not an image type.
batch_not_image_entry(file) ==
    [filename |-> file.filename,
     error |-> Some(<<"File must be an image">>),
     prediction |-> None,
     confidence |-> 0]

\* The entry appended when person_count is not 1.
batch_count_entry(file, person_count) ==
    [filename |-> file.filename,
     error |-> Some(<<"Expected 1 person, found ">> \o IntToStr(person_count)),
     person_count |-> person_count,
     prediction |-> None,
     confidence |-> 0]

\* The success entry reporting the runner-up's probability as confidence.
batch_success_entry_min(file, probs, person_count) ==
    [filename |-> file.filename,
     prediction |-> Some(id2label[ArgMax(probs)]),
     confidence |-> probs[1 - ArgMax(probs)],
     person_count |-> person_count,
     error |-> None]

\* The entry appended after classification.
batch_success_entry(file, probs, person_count) ==
    [filename |-> file.filename,
     prediction |-> Some(id2label[ArgMax(probs)]),
     confidence |-> MaxProb(probs),
     person_count |-> person_count,
     error |-> None]

\* except Exception as e: the entry appended for the item that raised
batch_exception_entry(file, text) ==
    [filename |-> file.filename,
     error |-> Some(text),
     prediction |-> None,
     confidence |-> 0]

\* One iteration of the loop, for the file at position k: the entry it
\* appends and the collaborator calls it made.
batch_item(file, k) ==
    IF file.content_type = None
    THEN [entry |-> batch_exception_entry(file, AttributeErrorText),
          calls |-> <<>>]
    ELSE IF NotImageType(file)
    THEN [entry |-> batch_not_image_entry(file), calls |-> <<>>]
    ELSE IF file.read_error # None
    THEN [entry |-> batch_exception_entry(file, file.read_error[1]),
          calls |-> <<Call("read", k)>>]
    ELSE IF file.decode_error # None
    THEN [entry |-> batch_exception_entry(file, file.decode_error[1]),
          calls |-> <<Call("read", k), Call("decode", k)>>]
    ELSE LET image == file.image
             person_count == count_people_in_image(image)
             counted == <<Call("read", k), Call("decode", k), Call("detect", k)>>
         IN  IF batch_count_mismatch(person_count)
             THEN [entry |-> batch_count_entry(file, person_count),
                   calls |-> counted]
             ELSE IF image.classifier.raises
             THEN [entry |-> batch_exception_entry(file, image.classifier.error),
                   calls |-> Append(counted, Call("classify", k))]
             ELSE [entry |-> batch_success_entry(file, image.classifier.probs,
                                                 person_count),
                   calls |-> Append(counted, Call("classify", k))]

\* results.append putting the entry first.
AppendResultFirst(list, entry) == <<entry>> \o list

\* results.append(entry)
AppendResult(list, entry) == Append(list, entry)

----------------------------------------------------------------------------
(* Uploads drawn for the handlers *)

ImagePng == <<"i", "m", "a", "g", "e", "/", "p", "n", "g">>
TextPlain == <<"t", "e", "x", "t", "/", "p", "l", "a", "i", "n">>
ImageNoSlash == <<"i", "m", "a", "g", "e">>

Person == [label |-> LabelPerson, score |-> ScoreThreshold + 1, box |-> BoxLarge]
FaintPerson == [label |-> LabelPerson, score |-> ScoreThreshold, box |-> BoxLarge]
Dog == [label |-> LabelDog, score |-> ScoreThreshold + 1, box |-> BoxLarge]

Detects(detections) == [raises |-> FALSE, detections |-> detections]
DetectorFails == [raises |-> TRUE, detections |-> <<>>]

Classifies(p0, p1) ==
    [raises |-> FALSE, error |-> <<>>, probs |-> (0 :> p0 @@ 1 :> p1)]
ClassifierFails ==
    [raises |-> TRUE, error |-> <<"classifier failed">>, probs |-> (0 :> 0 @@ 1 :> 0)]

Picture(detector, classifier) ==
    [size |-> <<10, 10>>, detector |-> detector, classifier |-> classifier]

Upload(filename, content_type, read_error, decode_error, image) ==
    [filename |-> filename, content_type |-> content_type,
     read_error |-> read_error, decode_error |-> decode_error, image |-> image]

\* a readable, decodable upload declared image/png
Png(filename, image) == Upload(filename, Some(ImagePng), None, None, image)

Solo == Picture(Detects(<<Person>>), Classifies(90, 10))

Files ==
    { Png("solo.png", Solo),
      Png("solo_dog.png", Picture(Detects(<<Dog, Person, FaintPerson>>),
                                  Classifies(30, 70))),
      Png("even.png", Picture(Detects(<<Person>>), Classifies(50, 50))),
      Png("empty.png", Picture(Detects(<<Dog, FaintPerson>>), Classifies(90, 10))),
      Png("pair.png", Picture(Detects(<<Person, Dog, Person>>), Classifies(90, 10))),
      Png("crowd.png", Picture(Detects([k \in 1..CrowdSize |-> Person]),
                               Classifies(30, 70))),
      Png("undetected.png", Picture(DetectorFails, Classifies(30, 70))),
      Png("unclassified.png", Picture(Detects(<<Person>>), ClassifierFails)),
      Upload("unread.png", Some(ImagePng), Some(<<"read failed">>), None, Solo),
      Upload("broken.png", Some(ImagePng), None,
             Some(<<"cannot identify image file">>), Solo),
      Upload("notes.txt", Some(TextPlain), None, None, Solo),
      Upload("image", Some(ImageNoSlash), None, None, Solo),
      Upload("blank", Some(<<>>), None, None, Solo),
      Upload("untyped", None, None, None, Solo) }

\* The uploads that fill a batch: one that classifies, one that raises in
\* the decoder, one without a person, one without a content type.
Fillers == {f \in Files : f.filename \in {"solo.png", "broken.png", "empty.png",
                                          "untyped"}}

\* A batch of n uploads, all a except the one at position p, which is b.
Batch(n, a, b, p) == [k \in 1..n |-> IF k = p THEN b ELSE a]

\* The batches drawn.  The framework answers a request without any file
\* itself (files is a required field), so the handler sees at least one.
Batches ==
    {Batch(n, a, b, p) : n \in 1..MaxFiles, a \in Fillers, b \in Files,
                         p \in 1..MaxFiles}

LabelOrders == {(0 :> "male" @@ 1 :> "female"), (0 :> "female" @@ 1 :> "male")}

----------------------------------------------------------------------------
(* The state machine *)

HandlerIdle ==
    /\ pc = "idle"
    /\ endpoint = "none"
    /\ files = <<>>
    /\ idx = 0
    /\ results = <<>>
    /\ response = None
    /\ calls = <<>>

CountIdle ==
    /\ cpc = "idle"
    /\ cimage = [size |-> <<10, 10>>, detector |-> Detects(<<>>)]
    /\ cresult = 0

\* After startup: the models are loaded, no request has arrived.
Init ==
    /\ id2label \in LabelOrders
    /\ HandlerIdle
    /\ CountIdle

\* POST /predict with one upload.
PredictGender ==
    /\ pc = "idle"
    /\ \E file \in Files :
        LET r == predict_gender(file)
        IN  /\ endpoint' = "predict"
            /\ files' = <<file>>
            /\ response' = Some(r.response)
            /\ calls' = r.calls
            /\ pc' = "responded"
    /\ UNCHANGED <<id2label, idx, results, countVars>>

\* POST /predict-batch: the size check and the empty results list.
PredictBatch ==
    /\ pc = "idle"
    /\ \E uploads \in Batches :
        /\ endpoint' = "predict-batch"
        /\ files' = uploads
        /\ IF BatchTooLarge(uploads)
           THEN /\ response' = Some(HTTPException(400,
                                        <<"Maximum 10 images per batch">>))
                /\ pc' = "responded"
                /\ idx' = idx
           ELSE /\ response' = response
                /\ pc' = "batch_loop"
                /\ idx' = 1
    /\ UNCHANGED <<id2label, results, calls, countVars>>

\* One iteration of the for loop of predict_batch; after the last file the
\* handler returns the results.
PredictBatchItem ==
    /\ pc = "batch_loop"
    /\ idx <= Len(files)
    /\ LET item == batch_item(files[idx], idx)
           list == AppendResult(results, item.entry)
       IN  /\ results' = list
           /\ calls' = calls \o item.calls
           /\ idx' = idx + 1
           /\ IF idx = Len(files)
              THEN /\ response' = Some(Ok([results |-> list]))
                   /\ pc' = "responded"
              ELSE /\ response' = response
                   /\ pc' = pc
    /\ UNCHANGED <<id2label, endpoint, files, countVars>>

Next == PredictGender \/ PredictBatch \/ PredictBatchItem

Spec == Init /\ [][Next]_vars

\* count_people_in_image on its own: every image and detector outcome drawn.
InitCount ==
    /\ id2label = (0 :> "male" @@ 1 :> "female")
    /\ HandlerIdle
    /\ cpc = "called"
    /\ cimage \in CountImages
    /\ cresult = 0

CountPeople ==
    /\ cpc = "called"
    /\ cresult' = count_people_in_image(cimage)
    /\ cpc' = "returned"
    /\ UNCHANGED <<cimage, handlerVars>>

NextCount == CountPeople

SpecCount == InitCount /\ [][NextCount]_vars

----------------------------------------------------------------------------
(* Properties of count_people_in_image (under SpecCount) *)

CountReturned == cpc = "returned"

CountDetections == cimage.detector.detections

\* In the label universe of the model, the labels that denote a person.
DenotesPerson(label) == label \in {LabelPerson, LabelPersonCaps}

\* A person detection whose entry lacks its box: reading it raises.
Malformed(detection) == DenotesPerson(detection.label) /\ detection.box = NoBox

\* The detections the contract counts: confidence > 0.7, relative area
\* > 0.05 (1/20) and relative height > 0.2 (1/5), as exact fractions.
ContractValid(detection, W, H) ==
    /\ DenotesPerson(detection.label)
    /\ detection.box # NoBox
    /\ detection.score * 10 > 7 * 100
    /\ (detection.box.xmax - detection.box.xmin)
         * (detection.box.ymax - detection.box.ymin) * 100 > 5 * (W * H)
    /\ (detection.box.ymax - detection.box.ymin) * 10 > 2 * H

\* C1: when the detector answers and no detection is malformed,
\* count_people_in_image returns exactly the number of detections labelled
\* as a person with confidence > 0.7, relative area > 0.05 and relative
\* height > 0.2, all strict; boundary values and other labels never count.
C1_CountIsExactlyTheValidPeople ==
    (/\ CountReturned
     /\ ~cimage.detector.raises
     /\ \A k \in 1..Len(CountDetections) : ~Malformed(CountDetections[k]))
    => cresult = Cardinality({k \in 1..Len(CountDetections) :
                    ContractValid(CountDetections[k],
                                  cimage.size[1], cimage.size[2])})

\* One counted person beside a person at confidence exactly 0.7 and a person
\* whose box is exactly 0.2 of the image height.
C1_Witness ==
    /\ CountReturned
    /\ ~cimage.detector.raises
    /\ cimage.size = <<10, 10>>
    /\ Len(CountDetections) = 3
    /\ CountDetections[1] = [label |-> LabelPersonCaps,
                             score |-> ScoreThreshold + 1, box |-> BoxLarge]
    /\ CountDetections[2] = [label |-> LabelPerson,
                             score |-> ScoreThreshold, box |-> BoxLarge]
    /\ CountDetections[3] = [label |-> LabelPerson,
                             score |-> ScoreThreshold + 1, box |-> BoxHeightEdge]
    /\ cresult = 1

\* C2: when the detector raises, or a step of the filter raises on its
\* output, count_people_in_image returns exactly 1, whatever had been
\* counted before the failure.
C2_FailureCountsAsOnePerson ==
    (/\ CountReturned
     /\ \/ cimage.detector.raises
        \/ \E k \in 1..Len(CountDetections) : Malformed(CountDetections[k]))
    => cresult = 1

\* The filter raises on the third detection after counting two people.
C2_Witness ==
    /\ CountReturned
    /\ ~cimage.detector.raises
    /\ Len(CountDetections) = 3
    /\ ContractValid(CountDetections[1], cimage.size[1], cimage.size[2])
    /\ ContractValid(CountDetections[2], cimage.size[1], cimage.size[2])
    /\ Malformed(CountDetections[3])
    /\ cresult = 1

----------------------------------------------------------------------------
(* Properties of /predict (under Spec) *)

PredictResponded == endpoint = "predict" /\ pc = "responded"

TheResponse == response[1]
TheBody == TheResponse.body[1]
TheFile == files[1]

\* The upload declares an image type, is read and decodes.
Decodes(file) ==
    /\ file.content_type # None
    /\ StartsWith(file.content_type[1], ImagePrefix)
    /\ file.read_error = None
    /\ file.decode_error = None

Classified(k) == \E c \in 1..Len(calls) : calls[c] = Call("classify", k)

\* C3: an upload that decodes and whose person count N is not 1 gets a 200
\* with prediction null, confidence 0.0, person_count N and a non-null
\* error, which contains N when N >= 2; the classifier is not invoked.
C3_WrongCountIsASoftError ==
    (PredictResponded /\ Decodes(TheFile)
        /\ count_people_in_image(TheFile.image) # 1)
    => LET N == count_people_in_image(TheFile.image)
       IN  /\ TheResponse.status = 200
           /\ TheResponse.body # None
           /\ TheBody.prediction = None
           /\ TheBody.confidence = 0
           /\ TheBody.person_count = N
           /\ TheBody.error # None
           /\ N >= 2 => Contains(TheBody.error[1], IntToStr(N))
           /\ ~Classified(1)

\* The crowded picture: a two-digit count in the message.
C3_Witness ==
    /\ PredictResponded
    /\ TheFile.filename = "crowd.png"
    /\ TheResponse.status = 200
    /\ TheBody.person_count = CrowdSize
    /\ Contains(TheBody.error[1], <<"1", "2">>)

\* The per-class mapping of a probability vector: each label of the
\* classifier with the probability of its class.
PerClass(probs) ==
    [label \in {id2label[c] : c \in ClassIds} |->
        probs[CHOOSE c \in ClassIds : id2label[c] = label]]

\* C4: with exactly one valid detection (and a classifier that answers),
\* /predict returns prediction = the argmax label, confidence = the
\* probability of that label, person_count = 1, probabilities = the
\* per-class mapping and error = null.
C4_SinglePersonResponse ==
    (/\ PredictResponded
     /\ Decodes(TheFile)
     /\ ~TheFile.image.detector.raises
     /\ count_people_in_image(TheFile.image) = 1
     /\ ~TheFile.image.classifier.raises)
    => LET probs == TheFile.image.classifier.probs
           best == CHOOSE c \in ClassIds :
                      \A d \in ClassIds : probs[c] >= probs[d]
       IN  /\ TheResponse.status = 200
           /\ TheResponse.body # None
           /\ TheBody.prediction # None
           /\ TheBody.error = None
           /\ TheBody.person_count = 1
           /\ TheBody.confidence = probs[best]
           /\ TheBody.probabilities = PerClass(probs)
           /\ TheBody.probabilities[TheBody.prediction[1]] = TheBody.confidence

\* The declared content type is not an image type, or none is declared.
NotAnImageUpload(file) ==
    \/ file.content_type = None
    \/ ~StartsWith(file.content_type[1], ImagePrefix)

\* C5: an upload whose content type is not an image type, or that declares
\* none, is rejected with 400, and decoder, detector and classifier are not
\* invoked.
C5_NonImageIsRejectedWith400 ==
    (PredictResponded /\ NotAnImageUpload(TheFile))
    => /\ TheResponse.status = 400
       /\ calls = <<>>

\* The message of the first exception the /predict flow hits, if any.
RaisedIn(file) ==
    IF file.content_type = None THEN Some(AttributeErrorText)
    ELSE IF ~StartsWith(file.content_type[1], ImagePrefix) THEN None
    ELSE IF file.read_error # None THEN file.read_error
    ELSE IF file.decode_error # None THEN file.decode_error
    ELSE IF count_people_in_image(file.image) = 1 /\ file.image.classifier.raises
         THEN Some(file.image.classifier.error)
    ELSE None

\* C6: an exception raised at any step of the /predict flow surfaces as a
\* 500 whose detail contains the exception's message.
C6_ExceptionIsA500WithItsMessage ==
    (PredictResponded /\ RaisedIn(TheFile) # None)
    => /\ TheResponse.status = 500
       /\ TheResponse.detail # None
       /\ Contains(TheResponse.detail[1], RaisedIn(TheFile)[1])

----------------------------------------------------------------------------
(* Properties of /predict-batch (under Spec) *)

BatchRequest == endpoint = "predict-batch"
BatchResponded == BatchRequest /\ pc = "responded"

\* C7: a batch of more than 10 files is rejected as a whole with 400 and no
\* result list, and no file is read, decoded, detected or classified; a
\* batch of 10 or fewer is never rejected for its size.
C7_BatchSizeLimit ==
    BatchResponded
    => /\ Len(files) > 10 =>
            /\ TheResponse.status = 400
            /\ TheResponse.body = None
            /\ results = <<>>
            /\ calls = <<>>
       /\ Len(files) <= 10 =>
            /\ TheResponse.status = 200
            /\ TheResponse.body # None
            /\ Len(TheBody.results) = Len(files)

\* Eleven files, each of which would classify if it were processed.
C7_Witness ==
    /\ BatchResponded
    /\ Len(files) = 11
    /\ \A k \in 1..Len(files) : files[k].filename = "solo.png"
    /\ TheResponse.status = 400

\* The item fails: not an image, unreadable, undecodable, a person count
\* other than 1, or a classifier exception.
ItemFails(file) ==
    \/ ~Decodes(file)
    \/ count_people_in_image(file.image) # 1
    \/ file.image.classifier.raises

\* C8: a batch of n <= 10 files yields exactly n entries, entry i being the
\* outcome of file i under its filename; files are processed one after
\* another in input order; a failing item yields an error entry for that
\* item only and changes no other entry.
C8_BatchResultsInInputOrder ==
    BatchRequest =>
       /\ pc = "batch_loop" => Len(results) = idx - 1
       /\ \A k \in 1..Len(results) :
            /\ results[k].filename = files[k].filename
            /\ results[k] = batch_item(files[k], k).entry
            /\ results[k].error # None <=> ItemFails(files[k])
       /\ \A c \in 1..Len(calls) :
            /\ calls[c].file <= Len(results)
            /\ c > 1 => calls[c - 1].file <= calls[c].file
       /\ (pc = "responded" /\ Len(files) <= 10) =>
            /\ TheResponse.status = 200
            /\ TheBody.results = results
            /\ Len(results) = Len(files)

\* An undecodable file between two good ones: both still get a prediction.
C8_Witness ==
    /\ BatchResponded
    /\ Len(files) = 3
    /\ files[2].filename = "broken.png"
    /\ Len(TheBody.results) = 3
    /\ TheBody.results[1].prediction = Some("male")
    /\ TheBody.results[2].error = Some(<<"cannot identify image file">>)
    /\ TheBody.results[3].prediction = Some("male")
    /\ TheBody.results[3].filename = "solo.png"

\* C9: an item is classified only when its person count is exactly 1; for a
\* count N of 0 or more than 1 the classifier is not invoked and the entry
\* is error "Expected 1 person, found N", person_count N, prediction null,
\* confidence 0.0.  An entry has a prediction iff its error is null.
C9_BatchClassifiesOnlySinglePerson ==
    BatchRequest =>
       \A k \in 1..Len(results) :
          LET file == files[k]
              entry == results[k]
              N == count_people_in_image(file.image)
          IN  /\ Classified(k) => (Decodes(file) /\ N = 1)
              /\ (Decodes(file) /\ N # 1) =>
                    /\ ~Classified(k)
                    /\ entry.error
                         = Some(<<"Expected 1 person, found ">> \o IntToStr(N))
                    /\ "person_count" \in DOMAIN entry
                    /\ entry.person_count = N
                    /\ entry.prediction = None
                    /\ entry.confidence = 0
              /\ entry.prediction # None <=> entry.error = None

\* A pair of people and an empty picture in one batch.
C9_Witness ==
    /\ BatchResponded
    /\ Len(results) = 2
    /\ files[1].filename = "pair.png"
    /\ files[2].filename = "empty.png"
    /\ results[1].person_count = 2
    /\ results[2].person_count = 0
    /\ ~Classified(1)
    /\ ~Classified(2)

\* The file has one valid person and the classifier answers for it.
SinglePersonClassified(file) ==
    /\ Decodes(file)
    /\ ~file.image.detector.raises
    /\ count_people_in_image(file.image) = 1
    /\ ~file.image.classifier.raises

\* What /predict returns for the file submitted alone.
AloneBody(file) == predict_gender(file).response.body[1]

\* C10 as stated: for a file with exactly one valid person the batch entry
\* carries the fields and values /predict returns for it: prediction,
\* confidence, person_count, probabilities and error = null.
C10_BatchEntryEqualsSingleResponse ==
    BatchRequest =>
       \A k \in 1..Len(results) :
          SinglePersonClassified(files[k]) =>
             \A key \in {"prediction", "confidence", "person_count",
                          "probabilities", "error"} :
                /\ key \in DOMAIN results[k]
                /\ results[k][key] = AloneBody(files[k])[key]

\* C10 amended: the batch entry carries the prediction, confidence,
\* person_count and error = null that /predict returns for the file, under
\* the file's name, and no probabilities mapping.
C10_BatchEntryEqualsSingleResponseButProbabilities ==
    BatchRequest =>
       \A k \in 1..Len(results) :
          SinglePersonClassified(files[k]) =>
             /\ DOMAIN results[k]
                  = {"filename", "prediction", "confidence", "person_count",
                     "error"}
             /\ "probabilities" \in DOMAIN AloneBody(files[k])
             /\ results[k].filename = files[k].filename
             /\ results[k].error = None
             /\ \A key \in {"prediction", "confidence", "person_count", "error"} :
                   results[k][key] = AloneBody(files[k])[key]

\* A batch whose second file is the picture classified 30/70.
C10_Witness ==
    /\ BatchResponded
    /\ Len(results) = 2
    /\ SinglePersonClassified(files[2])
    /\ files[2].filename = "solo_dog.png"
    /\ results[2].prediction # None
    /\ results[2].confidence = 70
    /\ results[2].person_count = 1

=============================================================================
